---- MODULE Spec2Model ----
(***************************************************************************)
(* Model of midi-generation/genMidiFromGpt.py: the MIDI variable-length    *)
(* quantity encoder write_varlen and the one-track Standard MIDI File      *)
(* writer create_midi.                                                     *)
(*                                                                         *)
(* Representation.                                                         *)
(*  - A bytes / bytearray value is a sequence of integers in 0..255.       *)
(*  - Times are Python floats in the source.  The model keeps them as      *)
(*    integer counts of 1/BeatDen beat; with BeatDen a power of two every  *)
(*    such value, sum, difference and product by 480 used here is exact    *)
(*    in binary floating point, so int(x * 480) is Trunc(units*480,        *)
(*    BeatDen) exactly.                                                    *)
(*  - The local integer `buffer` of write_varlen is kept as its base-256   *)
(*    digits, least significant byte first (the empty sequence is 0).      *)
(*    Only its low MaxBufBytes bytes are kept: the code never reads a      *)
(*    higher byte before it has shifted the lower ones out, and no         *)
(*    non-negative argument below 2^35 produces more than 5 bytes.         *)
(***************************************************************************)
EXTENDS Integers, Sequences, FiniteSets, TLC

\* ---------------------------------------------------------------- bounds

\* Longest input note list explored.
MaxNotes == 2

\* Number of low-order bytes of write_varlen's `buffer` that are kept.
MaxBufBytes == 6

\* Time resolution of the inputs: one unit is 1/BeatDen beat.
BeatDen == 512

\* ------------------------------------------------------- program constants

\* Ticks per beat: the 480 of lines 29, 30 and 41.
PPQ == 480

\* Microseconds per minute: the 60000000 of line 21.
MicrosPerMinute == 60000000

\* ------------------------------------------------------------------ inputs

\* Tempos passed to create_midi (155 is the default and the script's value).
Tempos == {-155, 0, 3, 155}

\* Note events <<start, pitch, dur, vel>>, start and dur in 1/BeatDen beat.
\*   <<0, 41, 384, 100>>    (0.0, 41, 0.75, 100), line 49
\*   <<384, 46, 128, 95>>   (0.75, 46, 0.25, 95), line 50
\*   <<0, 128, 384, 100>>   pitch 128
\*   <<384, 256, 128, 100>> pitch 256
\*   <<383, 43, 1, 100>>    starts 1/512 beat before the cursor left by line 49
\*   <<0, 41, 128, 200>>    velocity 200
\*   <<512, 41, -384, 100>> negative duration
NoteEvents ==
    { <<0, 41, 384, 100>>, <<384, 46, 128, 95>>, <<0, 128, 384, 100>>,
      <<384, 256, 128, 100>>, <<383, 43, 1, 100>>, <<0, 41, 128, 200>>,
      <<512, 41, -384, 100>> }

NoteLists == UNION { [1..n -> NoteEvents] : n \in 0..MaxNotes }

\* Arguments of direct calls of write_varlen.
VarlenInputs ==
    { 0, 1, 127, 128, 129, 255, 256, 360, 16383, 16384, 2097151, 2097152,
      268435455, 268435456, 2147483647 }

\* ----------------------------------------------------------------- helpers

\* int(n / d) for d > 0: Python's int() truncates toward zero.
Trunc(n, d) == IF n >= 0 THEN n \div d ELSE -((-n) \div d)

\* v >> 7 on a Python int: arithmetic shift, i.e. floor division by 128.
Shr7(v) == v \div 128

\* v & 0x7F on a Python int (two's complement of unbounded width).
And7F(v) == v % 128

\* out[::-1]
RECURSIVE Reverse(_)
Reverse(s) == IF s = <<>> THEN <<>> ELSE Append(Reverse(Tail(s)), Head(s))

\* pack('>L', n) for 0 <= n < 2^32 (TLC integers stay below 2^31).
PackL(n) == << (n \div 16777216) % 256, (n \div 65536) % 256,
               (n \div 256) % 256, n % 256 >>

\* pack('>H', n) for 0 <= n < 2^16.
PackH(n) == << (n \div 256) % 256, n % 256 >>

\* bytes([a, b]) raises ValueError unless both are in range(0, 256).
BytesOk(a, b) == a \in 0..255 /\ b \in 0..255

\* buffer & 0xFF
LowByte(buf) == IF buf = <<>> THEN 0 ELSE Head(buf)

\* buffer >> 8
Shr8(buf) == IF buf = <<>> THEN <<>> ELSE Tail(buf)

\* (buffer << 8) | b, for a byte b; the low MaxBufBytes bytes are kept.
Shl8Or(buf, b) == SubSeq(<<b>> \o buf, 1,
                         IF Len(buf) + 1 > MaxBufBytes THEN MaxBufBytes
                                                       ELSE Len(buf) + 1)

\* b'\x00\xFF\x51\x03' + pack('>L', microseconds_per_beat)[1:]
TempoMeta(m) == <<0, 255, 81, 3>> \o Tail(PackL(m))

\* b'\x00\xFF\x2F\x00'
EndOfTrack == <<0, 255, 47, 0>>

\* b'MThd' + pack('>LHHH', 6, 1, 1, 480)
HeaderChunk == <<77, 84, 104, 100>> \o PackL(6) \o PackH(1) \o PackH(1) \o PackH(PPQ)

\* Variant: the length is taken before the end-of-track event is appended.
TrackChunkLenBeforeEnd(td) ==
    <<77, 84, 114, 107>> \o PackL(Len(td) - Len(EndOfTrack)) \o td

\* b'MTrk' + pack('>L', len(track_data)) + track_data
TrackChunk(td) == <<77, 84, 114, 107>> \o PackL(Len(td)) \o td

\* ------------------------------------------------------------------- state

VARIABLES
    tempo,                  \* argument of create_midi
    notes,                  \* argument of create_midi
    pc,                     \* position in create_midi
    err,                    \* the exception that ended the call, or "none"
    microseconds_per_beat,
    track_data,
    last_time,              \* in 1/BeatDen beat
    idx,                    \* number of notes the for loop has taken
    delta_start,
    delta_dur,
    vpc,                    \* position in write_varlen, "idle" outside a call
    arg,                    \* the argument write_varlen was called with
    value,                  \* write_varlen's local
    buffer,                 \* write_varlen's local, low byte first
    out,                    \* write_varlen's local
    ret,                    \* write_varlen's return value
    header,
    track,
    fstate,                 \* the output file: "absent", "opened", "written"
    fdata                   \* the bytes in the output file

vars == << tempo, notes, pc, err, microseconds_per_beat, track_data, last_time,
           idx, delta_start, delta_dur, vpc, arg, value, buffer, out, ret,
           header, track, fstate, fdata >>

midiVars == << tempo, notes, pc, err, microseconds_per_beat, track_data,
               last_time, idx, delta_start, delta_dur, header, track, fstate,
               fdata >>

varlenVars == << vpc, arg, value, buffer, out, ret >>

\* -------------------------------------------------------------------- Init

Init ==
    /\ tempo \in Tempos
    /\ notes \in NoteLists
    /\ pc = "l21"
    /\ err = "none"
    /\ microseconds_per_beat = 0
    /\ track_data = <<>>
    /\ last_time = 0
    /\ idx = 0
    /\ delta_start = 0
    /\ delta_dur = 0
    /\ vpc = "idle"
    /\ arg = 0
    /\ value = 0
    /\ buffer = <<>>
    /\ out = <<>>
    /\ ret = <<>>
    /\ header = <<>>
    /\ track = <<>>
    /\ fstate = "absent"
    /\ fdata = <<>>

\* A direct call write_varlen(v), outside create_midi.
InitVarlen ==
    /\ tempo = 155
    /\ notes = <<>>
    /\ pc = "direct"
    /\ err = "none"
    /\ microseconds_per_beat = 0
    /\ track_data = <<>>
    /\ last_time = 0
    /\ idx = 0
    /\ delta_start = 0
    /\ delta_dur = 0
    /\ vpc = "l5"
    /\ arg \in VarlenInputs
    /\ value = arg
    /\ buffer = <<>>
    /\ out = <<>>
    /\ ret = <<>>
    /\ header = <<>>
    /\ track = <<>>
    /\ fstate = "absent"
    /\ fdata = <<>>

\* ------------------------------------------------------------ write_varlen

\* lines 5-6
VarlenEnter ==
    /\ vpc = "l5"
    /\ buffer' = << And7F(value) >>
    /\ vpc' = "l7"
    /\ UNCHANGED << arg, value, out, ret >>
    /\ UNCHANGED midiVars

\* line 7, and line 11 when the loop ends
VarlenTest ==
    /\ vpc = "l7"
    /\ IF Shr7(value) # 0
         THEN vpc' = "l8" /\ out' = out
         ELSE vpc' = "l13" /\ out' = <<>>
    /\ UNCHANGED << arg, value, buffer, ret >>
    /\ UNCHANGED midiVars

\* lines 8-10
VarlenShift ==
    /\ vpc = "l8"
    /\ value' = Shr7(value)
    /\ buffer' = Shl8Or(buffer, And7F(Shr7(value)) + 128)
    /\ vpc' = "l7"
    /\ UNCHANGED << arg, out, ret >>
    /\ UNCHANGED midiVars

\* lines 12-17, one iteration
VarlenEmit ==
    /\ vpc = "l13"
    /\ out' = Append(out, LowByte(buffer))
    /\ IF LowByte(buffer) >= 128
         THEN buffer' = Shr8(buffer) /\ vpc' = "l13"
         ELSE buffer' = buffer /\ vpc' = "l18"
    /\ UNCHANGED << arg, value, ret >>
    /\ UNCHANGED midiVars

\* line 18
VarlenReturn ==
    /\ vpc = "l18"
    /\ ret' = Reverse(out)
    /\ vpc' = "ret"
    /\ UNCHANGED << arg, value, buffer, out >>
    /\ UNCHANGED midiVars

write_varlen ==
    \/ VarlenEnter
    \/ VarlenTest
    \/ VarlenShift
    \/ VarlenEmit
    \/ VarlenReturn

\* ------------------------------------------------------------- create_midi

\* Variant: the output file is opened on entry, before anything is built.
ComputeTempoOpenFirst ==
    /\ pc = "l21"
    /\ fstate' = "opened"
    /\ fdata' = <<>>
    /\ IF tempo = 0
         THEN /\ pc' = "error"
              /\ err' = "ZeroDivisionError"
              /\ UNCHANGED microseconds_per_beat
         ELSE /\ microseconds_per_beat' =
                     IF tempo > 0 THEN Trunc(MicrosPerMinute, tempo)
                                  ELSE -Trunc(MicrosPerMinute, -tempo)
              /\ pc' = "l22"
              /\ err' = err
    /\ UNCHANGED << tempo, notes, track_data, last_time, idx, delta_start,
                    delta_dur, header, track >>
    /\ UNCHANGED varlenVars

\* line 21: int(60000000 / tempo); ZeroDivisionError when tempo is 0
ComputeTempo ==
    /\ pc = "l21"
    /\ IF tempo = 0
         THEN /\ pc' = "error"
              /\ err' = "ZeroDivisionError"
              /\ UNCHANGED microseconds_per_beat
         ELSE /\ microseconds_per_beat' =
                     IF tempo > 0 THEN Trunc(MicrosPerMinute, tempo)
                                  ELSE -Trunc(MicrosPerMinute, -tempo)
              /\ pc' = "l22"
              /\ err' = err
    /\ UNCHANGED << tempo, notes, track_data, last_time, idx, delta_start,
                    delta_dur, header, track, fstate, fdata >>
    /\ UNCHANGED varlenVars

\* lines 22-27: pack('>L', m) raises struct.error for m < 0
TempoEvent ==
    /\ pc = "l22"
    /\ IF microseconds_per_beat < 0
         THEN /\ pc' = "error"
              /\ err' = "struct.error"
              /\ UNCHANGED << track_data, last_time >>
         ELSE /\ track_data' = TempoMeta(microseconds_per_beat)
              /\ last_time' = 0
              /\ pc' = "l28"
              /\ err' = err
    /\ UNCHANGED << tempo, notes, microseconds_per_beat, idx, delta_start,
                    delta_dur, header, track, fstate, fdata >>
    /\ UNCHANGED varlenVars

\* lines 28-30: take the next note and compute its deltas, or leave the loop
NextNote ==
    /\ pc = "l28"
    /\ IF idx < Len(notes)
         THEN /\ idx' = idx + 1
              /\ delta_start' = Trunc((notes[idx + 1][1] - last_time) * PPQ, BeatDen)
              /\ delta_dur' = Trunc(notes[idx + 1][3] * PPQ, BeatDen)
              /\ pc' = "l32"
         ELSE /\ pc' = "l38"
              /\ UNCHANGED << idx, delta_start, delta_dur >>
    /\ UNCHANGED << tempo, notes, err, microseconds_per_beat, track_data,
                    last_time, header, track, fstate, fdata >>
    /\ UNCHANGED varlenVars

\* line 32: the call write_varlen(delta_start)
NoteOnCall ==
    /\ pc = "l32"
    /\ vpc = "idle"
    /\ arg' = delta_start
    /\ value' = delta_start
    /\ vpc' = "l5"
    /\ UNCHANGED << buffer, out, ret >>
    /\ UNCHANGED midiVars

\* line 32, after the call: + b'\x90' + bytes([pitch, vel])
NoteOn ==
    /\ pc = "l32"
    /\ vpc = "ret"
    /\ IF BytesOk(notes[idx][2], notes[idx][4])
         THEN /\ track_data' = track_data \o ret \o <<144, notes[idx][2], notes[idx][4]>>
              /\ pc' = "l34"
              /\ err' = err
         ELSE /\ pc' = "error"
              /\ err' = "ValueError"
              /\ UNCHANGED track_data
    /\ vpc' = "idle"
    /\ UNCHANGED << arg, value, buffer, out, ret >>
    /\ UNCHANGED << tempo, notes, microseconds_per_beat, last_time, idx,
                    delta_start, delta_dur, header, track, fstate, fdata >>

\* line 34: the call write_varlen(delta_dur)
NoteOffCall ==
    /\ pc = "l34"
    /\ vpc = "idle"
    /\ arg' = delta_dur
    /\ value' = delta_dur
    /\ vpc' = "l5"
    /\ UNCHANGED << buffer, out, ret >>
    /\ UNCHANGED midiVars

\* lines 34-35, after the call: + b'\x80' + bytes([pitch, 0]); last_time
NoteOff ==
    /\ pc = "l34"
    /\ vpc = "ret"
    /\ IF BytesOk(notes[idx][2], 0)
         THEN /\ track_data' = track_data \o ret \o <<128, notes[idx][2], 0>>
              /\ last_time' = notes[idx][1] + notes[idx][3]
              /\ pc' = "l28"
              /\ err' = err
         ELSE /\ pc' = "error"
              /\ err' = "ValueError"
              /\ UNCHANGED << track_data, last_time >>
    /\ vpc' = "idle"
    /\ UNCHANGED << arg, value, buffer, out, ret >>
    /\ UNCHANGED << tempo, notes, microseconds_per_beat, idx, delta_start,
                    delta_dur, header, track, fstate, fdata >>

\* lines 38-42
BuildFile ==
    /\ pc = "l38"
    /\ track_data' = track_data \o EndOfTrack
    /\ header' = HeaderChunk
    /\ track' = TrackChunk(track_data \o EndOfTrack)
    /\ pc' = "l43"
    /\ UNCHANGED << tempo, notes, err, microseconds_per_beat, last_time, idx,
                    delta_start, delta_dur, fstate, fdata >>
    /\ UNCHANGED varlenVars

\* line 43: open(filename, 'wb') creates or truncates the file
OpenFile ==
    /\ pc = "l43"
    /\ fstate' = "opened"
    /\ fdata' = <<>>
    /\ pc' = "l44"
    /\ UNCHANGED << tempo, notes, err, microseconds_per_beat, track_data,
                    last_time, idx, delta_start, delta_dur, header, track >>
    /\ UNCHANGED varlenVars

\* lines 44-45: f.write(header + track), close, print
WriteFile ==
    /\ pc = "l44"
    /\ fstate' = "written"
    /\ fdata' = header \o track
    /\ pc' = "done"
    /\ UNCHANGED << tempo, notes, err, microseconds_per_beat, track_data,
                    last_time, idx, delta_start, delta_dur, header, track >>
    /\ UNCHANGED varlenVars

create_midi ==
    \/ ComputeTempo
    \/ TempoEvent
    \/ NextNote
    \/ NoteOnCall
    \/ NoteOn
    \/ NoteOffCall
    \/ NoteOff
    \/ BuildFile
    \/ OpenFile
    \/ WriteFile

\* ---------------------------------------------------------- specifications

Next == create_midi \/ write_varlen

Spec == Init /\ [][Next]_vars

\* The interpreter runs the single thread whenever it can take a step.
FairSpec == Spec /\ WF_vars(Next)

NextVarlen == write_varlen

SpecVarlen == InitVarlen /\ [][NextVarlen]_vars

\* ------------------------------------------- reference definitions (SMF)

\* Largest value a 4-byte variable-length quantity holds (0x0FFFFFFF).
MaxVLQ == 128 * 128 * 128 * 128 - 1

\* Largest value 3 bytes hold (0xFFFFFF).
MaxU24 == 256 * 256 * 256 - 1

\* The continuation bytes of the standard variable-length quantity of u.
RECURSIVE VLQPrefix(_)
VLQPrefix(u) == IF u = 0 THEN <<>> ELSE VLQPrefix(u \div 128) \o << 128 + (u % 128) >>

\* The standard MIDI variable-length quantity of v >= 0, most significant
\* 7-bit group first, high bit set on every byte but the last.
StdVLQ(v) == VLQPrefix(v \div 128) \o << v % 128 >>

\* The standard decoder on a whole byte string: the value, or -1 when the
\* string is not exactly one variable-length quantity.
RECURSIVE StdDecode(_, _)
StdDecode(bs, acc) ==
    IF bs = <<>> THEN -1
    ELSE IF Head(bs) < 128
           THEN (IF Tail(bs) = <<>> THEN acc * 128 + Head(bs) ELSE -1)
           ELSE StdDecode(Tail(bs), acc * 128 + (Head(bs) - 128))

\* Length of the variable-length quantity bs starts with (0: none of 1-4 bytes).
VLQLen(bs) ==
    LET m == IF Len(bs) < 4 THEN Len(bs) ELSE 4
        ends == { i \in 1..m : bs[i] < 128 /\ \A j \in 1..(i - 1) : bs[j] >= 128 }
    IN  IF ends = {} THEN 0 ELSE CHOOSE i \in ends : TRUE

BadEvent == << -1, -1, -1, -1 >>

\* A byte string read as channel events <<delta, status, data1, data2>> with
\* status 0x90 or 0x80; what cannot be read so ends the list with BadEvent.
RECURSIVE ParseEvents(_)
ParseEvents(bs) ==
    IF bs = <<>> THEN <<>>
    ELSE LET n == VLQLen(bs)
         IN  IF n = 0 \/ Len(bs) < n + 3 THEN << BadEvent >>
             ELSE IF bs[n + 1] \notin {128, 144} THEN << BadEvent >>
             ELSE << << StdDecode(SubSeq(bs, 1, n), 0), bs[n + 1], bs[n + 2], bs[n + 3] >> >>
                  \o ParseEvents(SubSeq(bs, n + 4, Len(bs)))

\* A big-endian byte string as a number.
RECURSIVE BigEndian(_)
BigEndian(bs) ==
    IF bs = <<>> THEN 0 ELSE BigEndian(SubSeq(bs, 1, Len(bs) - 1)) * 256 + bs[Len(bs)]

\* The track event data between the tempo meta-event and the end of track.
NoteBytes == SubSeq(track_data, 8, Len(track_data) - 4)

\* int(dur * 480) of the i-th input event.
DurTicks(i) == Trunc(notes[i][3] * PPQ, BeatDen)

OutOfRange(x) == x \notin 0..127

\* ------------------------------------------------------------------ claims

\* C1: for every v in [0, 0x0FFFFFFF] write_varlen(v) is the standard
\* variable-length quantity of v: 1 to 4 bytes, most significant group
\* first, which the standard decoder turns back into v (0 -> 00, 127 -> 7F,
\* 128 -> 81 00).
C1_VarlenIsStandardVLQ ==
    (vpc = "ret" /\ arg \in 0..MaxVLQ) =>
        /\ ret = StdVLQ(arg)
        /\ Len(ret) \in 1..4
        /\ StdDecode(ret, 0) = arg

\* C2: in the written file the 32-bit big-endian field after "MTrk" equals
\* the number of bytes that follow it, those bytes are the track event data
\* (tempo meta-event, note events, end of track), and nothing follows them.
C2_TrackLengthField ==
    fstate = "written" =>
        /\ Len(fdata) >= 22
        /\ SubSeq(fdata, 15, 18) = <<77, 84, 114, 107>>
        /\ BigEndian(SubSeq(fdata, 19, 22)) = Len(fdata) - 22
        /\ SubSeq(fdata, 23, Len(fdata)) = track_data
        /\ SubSeq(track_data, Len(track_data) - 3, Len(track_data)) = EndOfTrack

\* C2 witness: a file written for two note events.
C2_Witness == fstate = "written" /\ Len(notes) = 2

\* C3: the track holds, for the i-th input event, one Note-On (0x90, pitch,
\* velocity) immediately followed by one Note-Off (0x80, pitch, 0) whose
\* delta-time is the variable-length quantity of the duration in ticks, in
\* input order, and twice as many channel events as input events.
C3_NotePairing ==
    pc = "done" =>
        LET ev == ParseEvents(NoteBytes)
        IN  /\ Len(ev) = 2 * Len(notes)
            /\ \A i \in 1..Len(notes) :
                 /\ SubSeq(ev[2 * i - 1], 2, 4) = << 144, notes[i][2], notes[i][4] >>
                 /\ ev[2 * i] = << DurTicks(i), 128, notes[i][2], 0 >>

\* C4: when some event has a pitch or a velocity outside [0,127] the call
\* produces nothing: no track buffer and no file.
C4_OutOfRangeRejected ==
    (\E i \in 1..Len(notes) : OutOfRange(notes[i][2]) \/ OutOfRange(notes[i][4])) =>
        (fstate = "absent" /\ track = <<>>)

\* C5: when tempo <= 0 or floor(60000000 / tempo) needs more than 3 bytes
\* the call produces nothing: no tempo value is written to the track data
\* and no file is written.
C5_InvalidTempoRejected ==
    (tempo <= 0 \/ Trunc(MicrosPerMinute, tempo) > MaxU24) =>
        (track_data = <<>> /\ fstate = "absent")

\* C6: an event that starts before the running cursor last_time is rejected
\* before it is encoded, and every delta-time passed to write_varlen is >= 0.
C6_NegativeDeltaRejected ==
    /\ ~(pc = "l32" /\ notes[idx][1] < last_time)
    /\ (vpc # "idle" => arg >= 0)

\* C7: create_midi terminates for every input, by returning or by raising,
\* and every call of write_varlen made during it returns.
C7_Terminates ==
    /\ <>(pc \in {"done", "error"})
    /\ ((vpc = "l5") ~> (vpc = "ret"))

\* C8: the output file is opened and written only after the header and the
\* track chunk are completely built; a call that fails leaves the file
\* untouched, and what is written is the complete header and track chunk.
C8_FileOnlyAfterBuild ==
    /\ fstate # "absent" =>
         /\ pc \in {"l44", "done"}
         /\ err = "none"
         /\ idx = Len(notes)
         /\ header = HeaderChunk
         /\ track = <<77, 84, 114, 107>> \o SubSeq(track, 5, 8) \o track_data
         /\ SubSeq(track_data, Len(track_data) - 3, Len(track_data)) = EndOfTrack
    /\ fstate = "written" => fdata = header \o track
    /\ pc = "error" => (err # "none" /\ fstate = "absent")

\* C8 witness: the encode failed on the second event's bytes, after the
\* first event was encoded, and the file is untouched.
C8_Witness ==
    /\ pc = "error"
    /\ err = "ValueError"
    /\ idx = 2
    /\ Len(track_data) > 7
    /\ fstate = "absent"

\* C9: write_varlen never returns bytes for an argument above 0x0FFFFFFF.
C9_TooLargeRejected ==
    arg > MaxVLQ => vpc # "ret"

\* C10: for a tempo whose microsecond value fits 3 bytes, the written file
\* starts with the 14-byte header MThd 6 1 1 480; the
\* track data starts with 00 FF 51 03 and the 3-byte big-endian value of
\* floor(60000000 / tempo), ends with 00 FF 2F 00, and holds only the
\* input's Note-On/Note-Off events between; for tempo 155 and the one event
\* (0.0, 41, 0.75, 100) these are 00 90 29 64, VLQ(360), 80 29 00.
C10_FixedFrame ==
    (pc = "done" /\ MicrosPerMinute \div tempo <= MaxU24) =>
        /\ SubSeq(fdata, 1, 14) = <<77, 84, 104, 100, 0, 0, 0, 6, 0, 1, 0, 1, 1, 224>>
        /\ SubSeq(track_data, 1, 4) = <<0, 255, 81, 3>>
        /\ BigEndian(SubSeq(track_data, 5, 7)) = MicrosPerMinute \div tempo
        /\ SubSeq(track_data, Len(track_data) - 3, Len(track_data)) = <<0, 255, 47, 0>>
        /\ LET ev == ParseEvents(NoteBytes)
           IN  /\ Len(ev) = 2 * Len(notes)
               /\ \A k \in 1..Len(ev) : ev[k][2] \in {128, 144}
        /\ (tempo = 155 /\ notes = << <<0, 41, 384, 100>> >>) =>
              /\ SubSeq(track_data, 5, 7) = <<5, 232, 24>>
              /\ NoteBytes = <<0, 144, 41, 100>> \o StdVLQ(360) \o <<128, 41, 0>>

====
